---- MODULE Spec2Model ----
(***************************************************************************)
(* Koyeb keep-alive worker (src/_worker.js): the Runner (keepAlive), the   *)
(* History Store (saveLogs / handleGetLogs over the LOG_KV binding) and    *)
(* the two triggers (scheduled, /api/trigger).                             *)
(*                                                                         *)
(* A JavaScript string is a sequence of characters; a character is a       *)
(* one-element TLA+ string, and a template chunk whose letters do not      *)
(* matter ("start", "apiOk", ...) is one character.  The value stored     *)
(* under a KV key is the string JSON.stringify produced, character by      *)
(* character: Stringify and JSONparse below are the serializer and the     *)
(* parser, not the identity.                                               *)
(***************************************************************************)
EXTENDS Integers, Sequences, FiniteSets, TLC

\* ------------------------------------------------------------ constants

\* CONFIG.LOG_LIMIT
LOG_LIMIT == 20

\* Events of the environment per behaviour that starts from a new namespace:
\* an event is a trigger, or a response other than the nominal one.
MaxEvents == 3
\* The same, for a behaviour that starts from a namespace near its limit.
MaxSeededEvents == 2
\* Runs past LOG_LIMIT in the sequential fill of a new namespace.
MaxExtra == 2
\* Manual triggers among the scheduled ones during the fill.
MaxManual == 1

Procs == {"cron", "web"}

\* ------------------------------------------------------------ JSON text

Q == "\""
BS == "\\"

\* JSON.stringify of a string: the characters between quotes, quote and
\* backslash escaped.
RECURSIVE Escape(_)
Escape(s) ==
  IF s = <<>> THEN <<>>
  ELSE (IF Head(s) \in {Q, BS} THEN <<BS, Head(s)>> ELSE <<Head(s)>>)
       \o Escape(Tail(s))

StringifyStr(s) == <<Q>> \o Escape(s) \o <<Q>>

\* The elements of a JSON array, comma separated.
RECURSIVE Join(_)
Join(items) ==
  IF items = <<>> THEN <<>>
  ELSE IF Len(items) = 1 THEN items[1]
  ELSE items[1] \o <<",">> \o Join(Tail(items))

StringifyArray(items) == <<"[">> \o Join(items) \o <<"]">>

\* A log entry {time, status, messages}; "time:" stands for the key and its
\* colon.
StringifyEntry(e) ==
  <<"{", "time:">> \o StringifyStr(e.time)
  \o <<",", "status:">> \o StringifyStr(e.status)
  \o <<",", "messages:">>
  \o StringifyArray([i \in DOMAIN e.messages |-> StringifyStr(e.messages[i])])
  \o <<"}">>

\* JavaScript values that can stand in `history`: an array of log entries,
\* or what JSON.parse gives for a stored text that is no array.
Arr(s) == [t |-> "array", v |-> s]
JsNull == [t |-> "null", v |-> <<>>]
JsObject == [t |-> "object", v |-> <<>>]

Stringify(x) ==
  CASE x.t = "array" ->
         StringifyArray([i \in DOMAIN x.v |-> StringifyEntry(x.v[i])])
    [] x.t = "null" -> <<"null">>
    [] x.t = "object" -> <<"{", "}">>

\* --- the parser: position i in text t, result [ok, v, next]
Fail == [ok |-> FALSE, v |-> <<>>, next |-> 0]
At(t, i) == IF i \in 1..Len(t) THEN t[i] ELSE "<eof>"

RECURSIVE ScanStr(_, _, _)
ScanStr(t, i, acc) ==
  IF i > Len(t) THEN Fail
  ELSE IF t[i] = Q THEN [ok |-> TRUE, v |-> acc, next |-> i + 1]
  ELSE IF t[i] = BS
       THEN IF At(t, i + 1) \in {Q, BS}
            THEN ScanStr(t, i + 2, Append(acc, t[i + 1]))
            ELSE Fail
  ELSE ScanStr(t, i + 1, Append(acc, t[i]))

ParseStr(t, i) == IF At(t, i) = Q THEN ScanStr(t, i + 1, <<>>) ELSE Fail

\* after an element of an array of strings
RECURSIVE ParseStrItems(_, _, _)
ParseStrItems(t, i, acc) ==
  LET s == ParseStr(t, i) IN
  IF ~s.ok THEN Fail
  ELSE IF At(t, s.next) = "," THEN ParseStrItems(t, s.next + 1, Append(acc, s.v))
  ELSE IF At(t, s.next) = "]"
       THEN [ok |-> TRUE, v |-> Append(acc, s.v), next |-> s.next + 1]
  ELSE Fail

ParseStrArray(t, i) ==
  IF At(t, i) # "[" THEN Fail
  ELSE IF At(t, i + 1) = "]" THEN [ok |-> TRUE, v |-> <<>>, next |-> i + 2]
  ELSE ParseStrItems(t, i + 1, <<>>)

ParseEntry(t, i) ==
  IF At(t, i) # "{" \/ At(t, i + 1) # "time:" THEN Fail
  ELSE LET tm == ParseStr(t, i + 2) IN
  IF ~tm.ok \/ At(t, tm.next) # "," \/ At(t, tm.next + 1) # "status:" THEN Fail
  ELSE LET st == ParseStr(t, tm.next + 2) IN
  IF ~st.ok \/ At(t, st.next) # "," \/ At(t, st.next + 1) # "messages:" THEN Fail
  ELSE LET ms == ParseStrArray(t, st.next + 2) IN
  IF ~ms.ok \/ At(t, ms.next) # "}" THEN Fail
  ELSE [ok |-> TRUE,
        v |-> [time |-> tm.v, status |-> st.v, messages |-> ms.v],
        next |-> ms.next + 1]

RECURSIVE ParseEntryItems(_, _, _)
ParseEntryItems(t, i, acc) ==
  LET e == ParseEntry(t, i) IN
  IF ~e.ok THEN Fail
  ELSE IF At(t, e.next) = "," THEN ParseEntryItems(t, e.next + 1, Append(acc, e.v))
  ELSE IF At(t, e.next) = "]"
       THEN [ok |-> TRUE, v |-> Append(acc, e.v), next |-> e.next + 1]
  ELSE Fail

ParseEntryArray(t, i) ==
  IF At(t, i) # "[" THEN Fail
  ELSE IF At(t, i + 1) = "]" THEN [ok |-> TRUE, v |-> <<>>, next |-> i + 2]
  ELSE ParseEntryItems(t, i + 1, <<>>)

\* JSON.parse: [ok |-> FALSE] is the SyntaxError it throws.
JSONparse(t) ==
  IF t = <<"null">> THEN [ok |-> TRUE, val |-> JsNull]
  ELSE IF t = <<"{", "}">> THEN [ok |-> TRUE, val |-> JsObject]
  ELSE LET a == ParseEntryArray(t, 1) IN
       IF a.ok /\ a.next = Len(t) + 1
       THEN [ok |-> TRUE, val |-> Arr(a.v)]
       ELSE [ok |-> FALSE, val |-> JsNull]

\* ------------------------------------------------------------ state

VARIABLES
  env,      \* the bindings: KOYEB_TOKEN, KOYEB_APP_URL, LOG_KV (present or not)
  kv,       \* the LOG_KV namespace: the keys 'history' and 'last_run'
  frame,    \* per invocation of keepAlive: its position and its locals
  now,      \* the clock read by new Date()
  out,      \* what the last step handed over: a response, a result, or
            \* (history variable) a put of 'history' and the value before it
  gh,       \* history variable: what the running invocation has done so far
  written,  \* history variable: every entry put under 'history', newest first
  ctl       \* the bounds of the behaviour and what it has used of them

vars == <<env, kv, frame, now, out, gh, written, ctl>>

\* A KV key: absent (get gives null) or a text.
NoValue == [set |-> FALSE, val |-> <<>>]
Value(s) == [set |-> TRUE, val |-> s]
\* `if (existing)`, `if (data)`: null and the empty text are falsy.
Truthy(x) == x.set /\ x.val # <<>>

Take(s, n) == SubSeq(s, 1, IF Len(s) < n THEN Len(s) ELSE n)

\* new Date().toISOString()
toISOString(n) == <<ToString(n)>>

\* ------------------------------------------------------------ the network

\* Texts that come from outside (error.message, statusText): they may hold
\* a quote and a backslash.
Texts == {<<"e", Q, BS>>}

NominalPrimary ==
  [kind |-> "response", status |-> 200, statusText |-> <<"OK">>,
   body |-> "object", email |-> <<"a@b.com">>, message |-> <<>>]

\* What fetch of the account profile may give: a response (its body a JSON
\* object with or without user.email, the JSON text null, or no JSON at all)
\* or a rejection.
PrimaryOutcomes ==
  {NominalPrimary, [NominalPrimary EXCEPT !.email = <<>>],
   [NominalPrimary EXCEPT !.body = "null", !.email = <<>>,
                           !.message = <<"TypeError">>]}
  \cup {[NominalPrimary EXCEPT !.body = "text", !.email = <<>>, !.message = m]
          : m \in Texts}
  \cup {[NominalPrimary EXCEPT !.status = 500, !.statusText = m, !.email = <<>>]
          : m \in Texts}
  \cup {[NominalPrimary EXCEPT !.kind = "throw", !.status = 0, !.statusText = <<>>,
                               !.email = <<>>, !.message = m] : m \in Texts}

NominalPing == [kind |-> "response", status |-> 200, message |-> <<>>]

PingOutcomes ==
  {NominalPing, [NominalPing EXCEPT !.status = 500]}
  \cup {[kind |-> "throw", status |-> 0, message |-> m] : m \in Texts}

\* response.ok
Ok(status) == status \in 200..299

\* ------------------------------------------------------------ messages
\* (the elapsed milliseconds of a message are left out)

StartMsg(ts, source) == ts \o <<"start", source>>
NoTokenMsg(ts) == ts \o <<"noToken">>
ApiOkMsg(ts, email) == ts \o <<"apiOk">> \o (IF email = <<>> THEN <<"Unknown">> ELSE email)
ApiFailMsg(ts, status, statusText) == ts \o <<"apiFail", ToString(status)>> \o statusText
ApiExcMsg(ts, message) == ts \o <<"apiExc">> \o message
PingMsg(ts, status) == ts \o <<"ping", ToString(status)>>
PingFailMsg(ts, message) == ts \o <<"pingFail">> \o message

\* ------------------------------------------------------------ keepAlive

IdleFrame ==
  [pc |-> "idle", timestamp |-> <<>>, logs |-> <<>>, success |-> TRUE,
   status |-> TRUE, retTo |-> "", history |-> <<>>]

NoGhost ==
  [primary |-> 0, ping |-> 0, save |-> 0, get |-> 0, put |-> 0,
   fault |-> "none", stale |-> FALSE, entry |-> <<>>, read |-> NoValue,
   response |-> <<>>, pinged |-> <<>>]

NoOut ==
  [kind |-> "none", proc |-> "", raised |-> FALSE, success |-> FALSE,
   logs |-> <<>>, body |-> <<>>, before |-> NoValue, gh |-> NoGhost]

\* return { success: false, logs } (line 51) or return { success, logs }
\* (line 92), after saveLogs came back.
KeepAliveReturn(p, f, g) ==
  /\ frame' = [frame EXCEPT ![p] = IdleFrame]
  /\ gh' = [gh EXCEPT ![p] = NoGhost]
  /\ out' = [NoOut EXCEPT !.kind = "result", !.proc = p,
                          !.success = IF f.retTo = "L51" THEN FALSE ELSE f.success,
                          !.logs = f.logs, !.gh = g]

\* An exception that leaves keepAlive: the caller gets no result.
Unwind(p, f, g) ==
  /\ frame' = [frame EXCEPT ![p] = IdleFrame]
  /\ gh' = [gh EXCEPT ![p] = NoGhost]
  /\ out' = [NoOut EXCEPT !.kind = "result", !.proc = p, !.raised = TRUE,
                          !.logs = f.logs, !.gh = g]

\* catch (e) { console.error('KV Save Error:', e); } and saveLogs returns.
SaveLogsCatch(p, f, g) == KeepAliveReturn(p, f, g)

CallSaveLogsUnguarded(p, f, g, status, retTo) ==
  /\ frame' = [frame EXCEPT ![p] =
                 [f EXCEPT !.status = status, !.retTo = retTo, !.pc = "get"]]
  /\ gh' = [gh EXCEPT ![p] = [g EXCEPT !.save = @ + 1]]
  /\ out' = NoOut

\* await saveLogs(env, logs, status): without the binding it returns at once.
CallSaveLogs(p, f, g, status, retTo) ==
  LET f1 == [f EXCEPT !.status = status, !.retTo = retTo]
      g1 == [g EXCEPT !.save = @ + 1]
  IN IF ~env.LOG_KV
     THEN KeepAliveReturn(p, f1, g1)
     ELSE /\ frame' = [frame EXCEPT ![p] = [f1 EXCEPT !.pc = "get"]]
          /\ gh' = [gh EXCEPT ![p] = g1]
          /\ out' = NoOut

\* A response of the environment other than the nominal one uses the budget.
Spend(nominal, isKv) ==
  /\ nominal \/ (ctl.faults < ctl.maxFaults /\ ctl.events < ctl.maxEvents)
  /\ ctl' = IF nominal THEN ctl
            ELSE [ctl EXCEPT !.faults = @ + 1, !.events = @ + 1,
                             !.kvFaults = IF isKv THEN @ + 1 ELSE @]

\* The budget after a trigger whose fetches gave n non-nominal responses.
Started(c, source, n) ==
  [c EXCEPT !.started = @ + 1, !.events = @ + 1 + n, !.faults = @ + n,
            !.manual = IF source = "Web Dashboard" THEN @ + 1 ELSE @]

\* The frame as keepAlive begins: logs = [start message], success = true.
StartFrame(ts, source) ==
  [IdleFrame EXCEPT !.timestamp = ts, !.logs = <<StartMsg(ts, source)>>]

NoTokenFrameOnly(f) == [f EXCEPT !.logs = <<NoTokenMsg(f.timestamp)>>]

\* 1. the token check: the error message of the early return.
NoTokenFrame(f) == [f EXCEPT !.logs = Append(@, NoTokenMsg(f.timestamp))]

\* 2. the request to the Koyeb API, the frame after it.
PrimaryStep(f, r) ==
  IF r.kind = "throw"
  THEN [f EXCEPT !.success = FALSE, !.logs = Append(@, ApiExcMsg(f.timestamp, r.message))]
  ELSE IF Ok(r.status)
  THEN IF r.body = "object"
       THEN [f EXCEPT !.logs = Append(@, ApiOkMsg(f.timestamp, r.email))]
       \* response.json() rejects, or data is null and data.user throws
       ELSE [f EXCEPT !.success = FALSE,
                      !.logs = Append(@, ApiExcMsg(f.timestamp, r.message))]
  ELSE [f EXCEPT !.success = FALSE,
                 !.logs = Append(@, ApiFailMsg(f.timestamp, r.status, r.statusText))]

AppPingStepFlips(f, r) ==
  IF r.kind = "throw"
  THEN [f EXCEPT !.success = FALSE,
                 !.logs = Append(@, PingFailMsg(f.timestamp, r.message))]
  ELSE [f EXCEPT !.logs = Append(@, PingMsg(f.timestamp, r.status))]

\* 3. the ping of the application URL, the frame after it.
AppPingStep(f, r) ==
  IF r.kind = "throw"
  THEN [f EXCEPT !.logs = Append(@, PingFailMsg(f.timestamp, r.message))]
  ELSE [f EXCEPT !.logs = Append(@, PingMsg(f.timestamp, r.status))]

\* keepAlive from its first line to its call of saveLogs.  The two fetches
\* touch nothing the other invocation reads, so the awaits between them are
\* not steps of their own: the invocation is next seen at saveLogs' first
\* await, or at its return when LOG_KV is not bound.
KeepAlive(p, source) ==
  /\ ctl.events < ctl.maxEvents
  /\ source = "Web Dashboard" => ctl.manual < ctl.maxManual
  /\ ctl.overlap \/ \A q \in Procs : frame[q].pc = "idle"
  /\ now' = now + 1
  /\ LET f0 == StartFrame(toISOString(now'), source) IN
     IF ~env.KOYEB_TOKEN
     THEN /\ ctl' = Started(ctl, source, 0)
          /\ CallSaveLogs(p, NoTokenFrame(f0), gh[p], FALSE, "L51")
     ELSE \E r \in PrimaryOutcomes :
            \E r2 \in (IF env.KOYEB_APP_URL THEN PingOutcomes ELSE {NominalPing}) :
              LET n == (IF r = NominalPrimary THEN 0 ELSE 1)
                       + (IF r2 = NominalPing THEN 0 ELSE 1)
                  f1 == PrimaryStep(f0, r)
                  g1 == [gh[p] EXCEPT !.primary = @ + 1, !.response = <<r>>]
                  f2 == IF env.KOYEB_APP_URL THEN AppPingStep(f1, r2) ELSE f1
                  g2 == IF env.KOYEB_APP_URL
                        THEN [g1 EXCEPT !.ping = @ + 1, !.pinged = <<r2>>]
                        ELSE g1
              IN /\ ctl.faults + n <= ctl.maxFaults
                 /\ ctl.events + 1 + n <= ctl.maxEvents
                 /\ ctl' = Started(ctl, source, n)
                 /\ CallSaveLogs(p, f2, g2, f2.success, "L92")
  /\ UNCHANGED <<env, kv, written>>

\* scheduled: ctx.waitUntil(keepAlive(env, 'Cron Scheduled'))
Scheduled ==
  /\ frame["cron"].pc = "idle"
  /\ KeepAlive("cron", "Cron Scheduled")

\* /api/trigger: keepAlive(env, 'Web Dashboard'), the result is the response
HandleTrigger ==
  /\ frame["web"].pc = "idle"
  /\ KeepAlive("web", "Web Dashboard")

\* ------------------------------------------------------------ saveLogs

\* let history = []; const existing = await get('history');
\* if (existing) history = JSON.parse(existing);   [ok |-> FALSE]: it threw
ReadHistory(existing) ==
  IF Truthy(existing) THEN JSONparse(existing.val)
  ELSE [ok |-> TRUE, val |-> Arr(<<>>)]

LogEntryInverted(f) ==
  [time |-> toISOString(now),
   status |-> IF f.status THEN <<"error">> ELSE <<"success">>,
   messages |-> f.logs]

\* const logEntry = { time, status, messages }
LogEntry(f) ==
  [time |-> toISOString(now),
   status |-> IF f.status THEN <<"success">> ELSE <<"error">>,
   messages |-> f.logs]

NewHistoryPushes(f, history) ==
  LET h == Append(history, LogEntry(f)) IN
  IF Len(h) > LOG_LIMIT THEN Take(h, LOG_LIMIT) ELSE h

NewHistoryNoLimit(f, history) == <<LogEntry(f)>> \o history

\* history.unshift(logEntry); if (history.length > LOG_LIMIT) history =
\* history.slice(0, LOG_LIMIT)
NewHistory(f, history) ==
  LET h == <<LogEntry(f)>> \o history IN
  IF Len(h) > LOG_LIMIT THEN Take(h, LOG_LIMIT) ELSE h

\* await env.LOG_KV.get('history') and the synchronous code up to the put.
SaveGet(p) ==
  /\ frame[p].pc = "get"
  /\ \E r \in {"ok", "throw"} :
       /\ Spend(r = "ok", TRUE)
       /\ LET f == frame[p]
              g == [gh[p] EXCEPT !.get = @ + 1, !.stale = FALSE]
          IN IF r = "throw"
             THEN SaveLogsCatch(p, f, [g EXCEPT !.fault = "get"])
             ELSE LET h == ReadHistory(kv.history)
                      g1 == [g EXCEPT !.read = kv.history]
                  IN \* JSON.parse threw, or unshift is no function of the value
                     IF ~h.ok \/ h.val.t # "array"
                     THEN SaveLogsCatch(p, f, g1)
                     ELSE /\ frame' = [frame EXCEPT ![p] =
                                         [f EXCEPT !.pc = "putHistory",
                                                   !.history = NewHistory(f, h.val.v)]]
                          /\ gh' = [gh EXCEPT ![p] = g1]
                          /\ out' = NoOut
  /\ UNCHANGED <<env, kv, now, written>>

PutValueMerged(f) ==
  LET cur == ReadHistory(kv.history) IN
  Stringify(Arr(Take(<<Head(f.history)>> \o cur.val.v, LOG_LIMIT)))

PutValueUnserialized(f) == <<"[object Object]">>

\* JSON.stringify(history), the text put under 'history'
PutValue(f) == Stringify(Arr(f.history))

\* await env.LOG_KV.put('history', JSON.stringify(history))
SavePutHistory(p) ==
  /\ frame[p].pc = "putHistory"
  /\ \E r \in {"ok", "throw"} :
       /\ Spend(r = "ok", TRUE)
       /\ LET f == frame[p]
              g == gh[p]
          IN IF r = "throw"
             THEN /\ SaveLogsCatch(p, f, [g EXCEPT !.fault = "putHistory"])
                  /\ UNCHANGED <<kv, written>>
             ELSE /\ kv' = [kv EXCEPT !.history = Value(PutValue(f))]
                  /\ written' = <<Head(f.history)>> \o written
                  /\ frame' = [frame EXCEPT ![p] = [f EXCEPT !.pc = "putLastRun"]]
                  /\ gh' = [q \in Procs |->
                              IF q = p
                              THEN [g EXCEPT !.put = @ + 1, !.entry = <<Head(f.history)>>]
                              ELSE IF frame[q].pc = "putHistory"
                                   THEN [gh[q] EXCEPT !.stale = TRUE]
                                   ELSE gh[q]]
                  /\ out' = [NoOut EXCEPT !.kind = "put", !.proc = p, !.gh = g,
                                          !.before = kv.history]
  /\ UNCHANGED <<env, now>>

\* await env.LOG_KV.put('last_run', new Date().toISOString()); saveLogs
\* returns and keepAlive returns its result.
SavePutLastRun(p) ==
  /\ frame[p].pc = "putLastRun"
  /\ \E r \in {"ok", "throw"} :
       /\ Spend(r = "ok", TRUE)
       /\ LET f == frame[p]
              g == gh[p]
          IN IF r = "throw"
             THEN /\ SaveLogsCatch(p, f, [g EXCEPT !.fault = "putLastRun"])
                  /\ UNCHANGED kv
             ELSE /\ kv' = [kv EXCEPT !.last_run = Value(toISOString(now))]
                  /\ KeepAliveReturn(p, f, [g EXCEPT !.put = @ + 1])
  /\ UNCHANGED <<env, now, written>>

\* ------------------------------------------------------------ /api/logs

\* The `history` handleGetLogs serializes: [] without the binding, when get
\* or JSON.parse throws, and when the key is absent or empty.
GetLogsHistory(r) ==
  IF ~env.LOG_KV \/ r = "throw" THEN Arr(<<>>)
  ELSE IF ~Truthy(kv.history) THEN Arr(<<>>)
  ELSE LET j == JSONparse(kv.history.val) IN
       IF j.ok THEN j.val ELSE Arr(<<>>)

\* out.gh.get: the reads of the store this request made; out.gh.fault: "get"
\* when that read threw.  A second request with no step in between gets what
\* the first one got and is not taken.
HandleGetLogs ==
  /\ out.kind # "logs"
  /\ \E r \in {"ok", "throw"} :
       /\ r = "throw" => env.LOG_KV
       /\ out' = [NoOut EXCEPT
                    !.kind = "logs",
                    !.body = Stringify(GetLogsHistory(r)),
                    !.gh = [NoGhost EXCEPT
                              !.get = IF env.LOG_KV THEN 1 ELSE 0,
                              !.fault = IF r = "throw" THEN "get" ELSE "none"]]
  /\ UNCHANGED <<env, kv, frame, now, gh, written, ctl>>

\* ------------------------------------------------------------ behaviours

Envs == [KOYEB_TOKEN : BOOLEAN, KOYEB_APP_URL : BOOLEAN, LOG_KV : BOOLEAN]

\* The logs of a cron run at time i in which the network answers as usual.
NominalLogs(e, i) ==
  LET f0 == StartFrame(toISOString(i), "Cron Scheduled") IN
  IF ~e.KOYEB_TOKEN THEN NoTokenFrame(f0).logs
  ELSE LET f1 == PrimaryStep(f0, NominalPrimary) IN
       IF e.KOYEB_APP_URL THEN AppPingStep(f1, NominalPing).logs ELSE f1.logs

\* The history after k such runs, one after the other, newest first.
SeedHistory(e, k) ==
  [j \in 1..k |->
     [time |-> toISOString(k + 1 - j),
      status |-> IF e.KOYEB_TOKEN THEN <<"success">> ELSE <<"error">>,
      messages |-> NominalLogs(e, k + 1 - j)]]

SeedKV(e, k) ==
  IF k = 0 THEN [history |-> NoValue, last_run |-> NoValue]
  ELSE [history |-> Value(Stringify(Arr(SeedHistory(e, k)))),
        last_run |-> Value(toISOString(k))]

InitWith(e, k, maxEvents, maxFaults, maxManual, overlap) ==
  /\ env = e
  /\ kv = SeedKV(e, k)
  /\ frame = [p \in Procs |-> IdleFrame]
  /\ now = k
  /\ out = NoOut
  /\ gh = [p \in Procs |-> NoGhost]
  /\ written = SeedHistory(e, k)
  /\ ctl = [started |-> 0, events |-> 0, faults |-> 0, kvFaults |-> 0,
            manual |-> 0, maxEvents |-> maxEvents, maxFaults |-> maxFaults,
            maxManual |-> maxManual, overlap |-> overlap, seed |-> k]

AllSet == [KOYEB_TOKEN |-> TRUE, KOYEB_APP_URL |-> TRUE, LOG_KV |-> TRUE]

\* Any configuration and a new namespace, or every binding set and the
\* namespace holding what LOG_LIMIT - 1 cron runs left in it; the two
\* triggers may overlap.
Init ==
  \/ \E e \in Envs : InitWith(e, 0, MaxEvents, MaxEvents, MaxEvents, TRUE)
  \/ InitWith(AllSet, LOG_LIMIT - 1, MaxSeededEvents, MaxSeededEvents,
              MaxSeededEvents, TRUE)

\* A new namespace filled past its limit by runs that do not overlap and in
\* which the network and the store answer as usual.
InitFill ==
  InitWith(AllSet, 0, LOG_LIMIT + MaxExtra, 0, MaxManual, FALSE)

\* Texts another writer of the namespace may have left under 'history':
\* the empty text, a truncated text, an object, null, and an empty array.
ExtTexts == {<<>>, <<"{">>, <<"{", "}">>, <<"null">>, <<"[", "]">>}

\* The namespace bound and 'history' written from outside; runs do not
\* overlap.
InitExt ==
  \E e \in {x \in Envs : x.LOG_KV} :
    \E t \in ExtTexts :
      /\ env = e
      /\ kv = [history |-> Value(t), last_run |-> NoValue]
      /\ frame = [p \in Procs |-> IdleFrame]
      /\ now = 0
      /\ out = NoOut
      /\ gh = [p \in Procs |-> NoGhost]
      /\ written = <<>>
      /\ ctl = [started |-> 0, events |-> 0, faults |-> 0, kvFaults |-> 0,
                manual |-> 0, maxEvents |-> MaxEvents, maxFaults |-> MaxEvents,
                maxManual |-> MaxEvents, overlap |-> FALSE, seed |-> 0]

Next ==
  \/ Scheduled
  \/ HandleTrigger
  \/ \E p \in Procs : SaveGet(p)
  \/ \E p \in Procs : SavePutHistory(p)
  \/ \E p \in Procs : SavePutLastRun(p)
  \/ HandleGetLogs

Spec == Init /\ [][Next]_vars

SpecFill == InitFill /\ [][Next]_vars

SpecExt == InitExt /\ [][Next]_vars

\* ------------------------------------------------------------ properties

Idle == \A p \in Procs : frame[p].pc = "idle"

\* The entries a text holds when it is the JSON text of an array, else none.
Entries(t) ==
  LET j == JSONparse(t) IN
  IF j.ok /\ j.val.t = "array" THEN j.val.v ELSE <<>>

IsArrayText(t) == LET j == JSONparse(t) IN j.ok /\ j.val.t = "array"

\* The entries stored under 'history'.
Stored == IF kv.history.set THEN Entries(kv.history.val) ELSE <<>>

\* The entries of the last /api/logs response.
Listed == Entries(out.body)

Min(a, b) == IF a < b THEN a ELSE b

HasSpecial(e) ==
  \E i \in DOMAIN e.messages :
    \E j \in DOMAIN e.messages[i] : e.messages[i][j] \in {Q, BS}

\* C1: after n appends that do not overlap, to a new namespace whose store
\* answers, /api/logs returns min(n, LOG_LIMIT) entries: the entries of the
\* most recent appends, the newest first (entry i is the one appended at
\* time n + 1 - i), the older ones dropped.
C1_FillNewestFirst ==
  (out.kind = "logs" /\ out.gh.fault = "none" /\ Idle /\ ~ctl.overlap
     /\ ctl.seed = 0 /\ ctl.kvFaults = 0)
  => LET l == Listed IN
     /\ IsArrayText(out.body)
     /\ Len(l) = Min(ctl.started, LOG_LIMIT)
     /\ \A i \in 1..Len(l) :
          /\ l[i] = written[i]
          /\ l[i].time = toISOString(ctl.started + 1 - i)

C1_Witness ==
  /\ out.kind = "logs" /\ out.gh.fault = "none" /\ Idle /\ ~ctl.overlap
  /\ ctl.started > LOG_LIMIT
  /\ ctl.manual = 1
  /\ Len(Listed) = LOG_LIMIT

\* C2: when an append puts 'history' after another append has put it since
\* the first one read it, the stored history is the writer's entry on top of
\* what the writer read: the entry of the append in between is not in it.
C2_LastWriterWins ==
  (out.kind = "put" /\ out.gh.stale)
  => LET s == Stored IN
     /\ Len(written) >= 2
     /\ s # <<>>
     /\ s[1] = written[1]
     /\ \A i \in 1..Len(s) : s[i] # written[2]

\* Two appends to a new namespace, no call failed, both returned, one entry
\* is stored.
C2_Witness ==
  /\ Idle /\ out.kind = "result" /\ ~out.raised
  /\ ctl.seed = 0 /\ ctl.faults = 0 /\ ctl.started = 2
  /\ Len(written) = 2
  /\ Len(Stored) = 1

\* C3 as claimed: without the token keepAlive returns success = false, one
\* message, and has made no request.
C3_SingleMessage ==
  (out.kind = "result" /\ ~env.KOYEB_TOKEN)
  => /\ ~out.raised /\ ~out.success
     /\ Len(out.logs) = 1
     /\ out.gh.primary = 0 /\ out.gh.ping = 0

\* C3 amended: without the token keepAlive returns success = false and two
\* messages, the start message and the missing-token message, and has made
\* no request.
C3_TwoMessages ==
  (out.kind = "result" /\ ~env.KOYEB_TOKEN)
  => /\ ~out.raised /\ ~out.success
     /\ Len(out.logs) = 2
     /\ out.logs[1][2] = "start" /\ out.logs[2][2] = "noToken"
     /\ out.gh.primary = 0 /\ out.gh.ping = 0

C3_Witness == out.kind = "result" /\ ~env.KOYEB_TOKEN /\ out.proc = "web"

\* C4: with the token the returned success flag is true exactly when the
\* account request gave a 2xx response whose body was read as a JSON object,
\* whatever the ping of the application URL did.
C4_PrimaryDecides ==
  (out.kind = "result" /\ env.KOYEB_TOKEN)
  => /\ ~out.raised
     /\ out.gh.primary = 1
     /\ LET r == out.gh.response[1] IN
        /\ (r.kind = "throw" \/ ~Ok(r.status)) => ~out.success
        /\ out.success <=> (r.kind = "response" /\ Ok(r.status) /\ r.body = "object")

\* The account request succeeded, the ping threw, success is true.
C4_Witness ==
  /\ out.kind = "result" /\ env.KOYEB_TOKEN /\ out.success
  /\ out.gh.pinged # <<>>
  /\ out.gh.pinged[1].kind = "throw"

\* C5 as claimed: an append in which a call of the store threw does not
\* raise and has written nothing.
C5_FailedAppendWritesNothing ==
  (out.kind = "result" /\ out.gh.fault # "none")
  => /\ ~out.raised
     /\ out.gh.put = 0 /\ out.gh.entry = <<>>

\* C5 amended: an append never raises; when the binding is absent, or get
\* or the put of 'history' threw, it has written nothing; when the put of
\* 'last_run' threw, its entry is already stored and 'last_run' is not
\* written.
C5_FailedAppendNeverRaises ==
  (out.kind = "result")
  => /\ ~out.raised
     /\ ~env.LOG_KV => (out.gh.put = 0 /\ out.gh.get = 0)
     /\ out.gh.fault \in {"get", "putHistory"}
          => (out.gh.put = 0 /\ out.gh.entry = <<>>)
     /\ out.gh.fault = "putLastRun"
          => (out.gh.put = 1 /\ out.gh.entry # <<>>)

C5_Witness == out.kind = "result" /\ out.gh.fault = "putLastRun"

Unreadable(x) == x.set /\ ~IsArrayText(x.val)

\* C6 as claimed: an append that read an unreadable 'history', no call of
\* the store failing, has stored a history whose first entry is its own.
C6_UnreadableTreatedAsEmpty ==
  (out.kind = "result" /\ out.gh.get = 1 /\ out.gh.fault = "none"
     /\ Unreadable(out.gh.read))
  => LET s == Stored IN
     /\ s # <<>>
     /\ s[1].messages = out.logs

\* C7: /api/logs returns, as its first element, the entry of the last
\* append that put 'history', with its time, status and messages as built.
C7_RoundTrip ==
  (out.kind = "logs" /\ out.gh.fault = "none" /\ env.LOG_KV /\ written # <<>>)
  => LET l == Listed IN
     /\ IsArrayText(out.body)
     /\ l # <<>>
     /\ l[1] = written[1]

\* The entry listed first was appended in this behaviour and holds a quote
\* or a backslash.
C7_Witness ==
  /\ out.kind = "logs" /\ out.gh.fault = "none" /\ env.LOG_KV
  /\ Len(written) > ctl.seed
  /\ HasSpecial(written[1])
  /\ Listed # <<>>

\* C8: without the LOG_KV binding nothing is stored, no invocation is ever
\* inside saveLogs, /api/logs returns [] without a read, and every run
\* returns its result without a read or a write.
C8_NoBinding ==
  ~env.LOG_KV
  => /\ kv = SeedKV(env, 0)
     /\ Idle
     /\ out.kind = "logs"
          => (IsArrayText(out.body) /\ Listed = <<>> /\ out.gh.get = 0)
     /\ out.kind = "result"
          => (~out.raised /\ out.gh.save = 1 /\ out.gh.get = 0 /\ out.gh.put = 0)

C8_Witness ==
  /\ ~env.LOG_KV /\ out.kind = "logs" /\ ctl.started >= 2 /\ ctl.manual >= 1

\* What every run has done when it returns: one call of saveLogs, and the entry it stored, if
\* any, has its messages and the status of its success flag.
RunAppendsOnce ==
  (out.kind = "result")
  => /\ ~out.raised
     /\ out.gh.save = 1
     /\ Len(out.gh.entry) <= 1
     /\ out.gh.entry # <<>>
          => /\ out.gh.entry[1].messages = out.logs
             /\ out.gh.entry[1].status
                  = (IF out.success THEN <<"success">> ELSE <<"error">>)

\* The entries stored before the put of the last step.
Before == IF out.before.set THEN Entries(out.before.val) ELSE <<>>

\* A put of 'history' shifted the entries by one and dropped those past the
\* limit.
Shifted(old, new) ==
  /\ new # <<>>
  /\ Tail(new) = Take(old, LOG_LIMIT - 1)

\* C9 as claimed: every run appends once, with the status of its flag, and
\* a put of 'history' only shifts the stored entries by one and drops those
\* past LOG_LIMIT.
C9_OnlyTruncationEvicts ==
  /\ RunAppendsOnce
  /\ out.kind = "put" => Shifted(Before, Stored)

\* C9 amended: every run appends once, with the status of its flag; the
\* stored entries are always entries as some run built them; a put by an
\* append whose read is still current shifts the stored entries by one and
\* drops those past LOG_LIMIT, and a put by an append whose read is stale
\* replaces them by its own entry on top of what it read.
C9_EvictionOrOverwrite ==
  /\ RunAppendsOnce
  /\ out.kind = "put"
       => LET s == Stored IN
          /\ \A i \in 1..Len(s) : \E j \in 1..Len(written) : s[i] = written[j]
          /\ s = frame[out.proc].history
          /\ ~out.gh.stale => Shifted(Before, s)

\* A run returned after its put pushed an entry past LOG_LIMIT.
C9_Witness ==
  /\ out.kind = "result" /\ out.gh.entry # <<>>
  /\ Len(written) > LOG_LIMIT
  /\ Len(Stored) = LOG_LIMIT

\* C10: 'last_run' is put only by an append whose put of 'history' went
\* through, and when 'last_run' is set the stored history is an array of at
\* least one and at most LOG_LIMIT entries.
C10_LastRunImpliesHistory ==
  /\ \A p \in Procs : frame[p].pc = "putLastRun" => gh[p].put = 1
  /\ kv.last_run.set
       => LET j == JSONparse(kv.history.val) IN
          /\ kv.history.set /\ j.ok /\ j.val.t = "array"
          /\ Len(j.val.v) >= 1
          /\ Len(j.val.v) <= LOG_LIMIT

\* 'last_run' is the time of the append that pushed an entry past the limit.
C10_Witness ==
  /\ Idle
  /\ kv.last_run = Value(toISOString(now))
  /\ Len(written) = LOG_LIMIT + 1
  /\ Len(Stored) = LOG_LIMIT

====
